---- MODULE Spec2Model ----
(***************************************************************************)
(* TkoolFaceGenerator: tkool_face_generator.py as a state machine.         *)
(*                                                                         *)
(* The module has three functions: process_images (crop every uploaded     *)
(* image and tile the crops into sheets), create_zip_file (pack the sheets *)
(* into one archive) and main (the Streamlit batch action that calls both  *)
(* and offers the results).  One behaviour of the model is one call of one *)
(* of them; the loops advance one iteration per step.                      *)
(***************************************************************************)
EXTENDS Integers, Sequences, FiniteSets, TLC

(***************************************************************************)
(* Bounds of the model.                                                    *)
(***************************************************************************)
\* Longest batch whose images are drawn freely from Files.
MaxFiles == 3
\* Length of the one long batch (good images only, a 1 x 1 grid).
LongLen == 100
\* Longest list of arbitrary (sheet, filename) pairs handed to create_zip_file.
MaxPairs == 3

(***************************************************************************)
(* Python floats.  ratio = max_width / w and h * ratio are IEEE-754 binary64*)
(* operations, each correctly rounded (round half to even).  A float is    *)
(* [sig, exp]: sig a sequence of MantBits bits, most significant first and *)
(* equal to 1, of value sig * 2^exp.  Bits are kept in sequences because   *)
(* a 53-bit significand does not fit TLC's 32-bit integers.                *)
(***************************************************************************)
MantBits == 53

\* The k low bits of c, most significant first.
IntToBits(c, k) == [i \in 1..k |-> (c \div 2^(k - i)) % 2]

\* The number of bits of c >= 0 (0 for 0).
BitLength(c) == CHOOSE n \in 0..30 : c < 2^n /\ (n = 0 \/ c >= 2^(n - 1))

\* The integer a bit sequence (of at most 30 bits) spells.
RECURSIVE BitsToInt(_)
BitsToInt(bits) ==
    IF bits = <<>> THEN 0
    ELSE IF Len(bits) = 1 THEN bits[1]
    ELSE LET n == Len(bits)
             m == n \div 2
         IN  BitsToInt(SubSeq(bits, 1, m)) * 2^(n - m) + BitsToInt(SubSeq(bits, m + 1, n))

\* The bits with one added; "carry" tells that every bit was 1.
IncBits(bits) ==
    LET n  == Len(bits)
        zs == {i \in 1..n : bits[i] = 0}
    IN  IF zs = {}
        THEN [bits |-> [i \in 1..n |-> 0], carry |-> TRUE]
        ELSE LET j == CHOOSE i \in zs : \A k \in zs : k <= i
             IN  [bits |-> [i \in 1..n |-> IF i < j THEN bits[i] ELSE IF i = j THEN 1 ELSE 0],
                  carry |-> FALSE]

\* Round half to even: sig holds MantBits bits, guard is the next bit and
\* sticky tells whether anything non-zero follows it.
RoundNearestEven(sig, exp, guard, sticky) ==
    IF guard = 1 /\ (sticky \/ sig[Len(sig)] = 1)
    THEN LET r == IncBits(sig)
         IN  IF r.carry
             THEN [sig |-> <<1>> \o SubSeq(r.bits, 1, Len(sig) - 1), exp |-> exp + 1]
             ELSE [sig |-> r.bits, exp |-> exp]
    ELSE [sig |-> sig, exp |-> exp]

\* Number of zero bits after the binary point of r / b, for 0 < r < b, and
\* the remainder reached there.
RECURSIVE Normalize(_, _, _)
Normalize(r, b, z) ==
    IF 2 * r >= b THEN [rem |-> r, zeros |-> z] ELSE Normalize(2 * r, b, z + 1)

\* The next 9 * n bits of the binary expansion of r / b (long division, nine
\* bits at a time), and the remainder.
RECURSIVE QuotBits(_, _, _)
QuotBits(r, b, n) ==
    IF n = 0 THEN [bits |-> <<>>, rem |-> r]
    ELSE LET rest == QuotBits((r * 512) % b, b, n - 1)
         IN  [bits |-> IntToBits((r * 512) \div b, 9) \o rest.bits, rem |-> rest.rem]

\* a / b for integers 0 < a < b (Python's true division of ints): MantBits
\* bits of the quotient, the guard bit, and the remainder as the sticky bit.
TrueDiv(a, b) ==
    LET nz == Normalize(a, b, 0)
        q  == QuotBits(nz.rem, b, 6)
    IN  RoundNearestEven(SubSeq(q.bits, 1, MantBits), 0 - (nz.zeros + MantBits),
                         q.bits[MantBits + 1], q.rem > 0)

\* The bits of k * bits + c for integers k >= 1 and c >= 0 (long
\* multiplication from the low end, nine bits at a time).
RECURSIVE MulBits(_, _, _)
MulBits(bits, k, c) ==
    IF bits = <<>> THEN IntToBits(c, BitLength(c))
    ELSE LET n    == Len(bits)
             m    == IF n > 9 THEN 9 ELSE n
             v    == BitsToInt(SubSeq(bits, n - m + 1, n)) * k + c
         IN  MulBits(SubSeq(bits, 1, n - m), k, v \div 2^m) \o IntToBits(v % 2^m, m)

\* h * f for an integer h >= 1 (converted exactly) and a float f.
FloatMul(h, f) ==
    LET p      == MulBits(f.sig, h, 0)
        k      == Len(p) - MantBits
        guard  == IF k >= 1 THEN p[MantBits + 1] ELSE 0
        sticky == \E j \in (MantBits + 2)..Len(p) : p[j] = 1
    IN  RoundNearestEven(SubSeq(p, 1, MantBits), f.exp + k, guard, sticky)

\* int(f) for a float f >= 0: truncation.
FloatToInt(f) ==
    LET keep == MantBits + f.exp
    IN  IF keep <= 0 THEN 0 ELSE BitsToInt(SubSeq(f.sig, 1, keep))

\* int(h * ratio) with ratio = max_width / w, for w > max_width.
ScaledHeight(w, h, mw) == FloatToInt(FloatMul(h, TrueDiv(mw, w)))

(***************************************************************************)
(* The inputs.                                                             *)
(***************************************************************************)
\* The uploaded images: whether the file decodes, and its size.  300 x 300
\* and 800 x 600 are the sizes of the documented scenarios; 400 x 300 lies on
\* a max_width boundary; 289 x 289 is resized under max_width = 200;
\* 801 x 1 is resized to an empty height; the last does not decode.
Files ==
    { [ok |-> TRUE,  w |-> 300, h |-> 300],
      [ok |-> TRUE,  w |-> 800, h |-> 600],
      [ok |-> TRUE,  w |-> 400, h |-> 300],
      [ok |-> TRUE,  w |-> 289, h |-> 289],
      [ok |-> TRUE,  w |-> 801, h |-> 1],
      [ok |-> FALSE, w |-> 0,   h |-> 0] }

\* The i-th uploaded file: its display name is its position in the upload.
Named(i, k) == [name |-> i, ok |-> k.ok, w |-> k.w, h |-> k.h]

\* process_images' parameters.
Params ==
    { [crop_width |-> c[1], crop_height |-> c[2], columns |-> g[1], rows |-> g[2],
       max_width |-> mw, x_offset |-> xo] :
        c \in {<<144, 144>>, <<145, 150>>}, g \in {<<1, 1>>, <<2, 1>>, <<2, 2>>},
        mw \in {200, 400}, xo \in {0, -40} }

LongParams ==
    [crop_width |-> 144, crop_height |-> 144, columns |-> 1, rows |-> 1,
     max_width |-> 400, x_offset |-> 0]

\* Arbitrary (sheet, filename) pairs for a direct call of create_zip_file.
Pairs ==
    { [sheet |-> [width |-> w, height |-> 144, pasted |-> <<>>], filename |-> n] :
        w \in {144, 288}, n \in {"a.png", "b.png"} }

\* ScaledHeight on the sizes and widths above, evaluated once.
ScaledHeights ==
    [t \in {<<f.w, f.h, p.max_width>> : f \in {g \in Files : g.ok}, p \in Params \cup {LongParams}} |->
        IF t[1] > t[3] THEN ScaledHeight(t[1], t[2], t[3]) ELSE t[2]]

\* new_height = int(h * ratio)
NewHeight(w, h, mw) == ScaledHeights[<<w, h, mw>>]

(***************************************************************************)
(* process_images: the per-image step (lines 20-55).                       *)
(***************************************************************************)
\* upper = 20: the fixed inset from the top of the image.
Upper == 20

\* max_images_per_sheet = columns * rows
MaxImagesPerSheet_Sum(columns, rows) == columns + rows
MaxImagesPerSheet(columns, rows) == columns * rows

\* if w > max_width
NeedsResize(w, mw) == w > mw

\* img.resize((new_width, new_height), LANCZOS) raises ValueError ("height
\* and width must be > 0") for an empty target size.
ResizeRaises(nw, nh) == nw < 1 \/ nh < 1

\* w, h after lines 27-37: the size every later line of the step reads.
EffectiveSize(f, mw) ==
    IF NeedsResize(f.w, mw)
    THEN [w |-> mw, h |-> NewHeight(f.w, f.h, mw)]
    ELSE [w |-> f.w, h |-> f.h]

\* center_x, left, upper, right, lower.  Python's // on these operands is
\* the floor division \div.
CropBox(w, cw, ch, xo) ==
    LET center_x == w \div 2
        left     == center_x - cw \div 2 + xo
    IN  [left |-> left, upper |-> Upper, right |-> left + cw, lower |-> Upper + ch]

\* if left < 0 or right > w or lower > h
TooSmall_NoHeight(box, w, h) == box.left < 0 \/ box.right > w
TooSmall(box, w, h) == box.left < 0 \/ box.right > w \/ box.lower > h

\* img.crop((left, upper, right, lower)): an image of the box's size holding
\* that region of the (resized) source.
Crop(name, box) ==
    [src |-> name, box |-> box,
     width |-> box.right - box.left, height |-> box.lower - box.upper]

\* The message of st.info, st.warning and the per-image st.error.
InfoMsg(f, nw, nh) == [name |-> f.name, w |-> f.w, h |-> f.h, nw |-> nw, nh |-> nh]
WarningMsg(f, w, h) == [name |-> f.name, w |-> w, h |-> h]
ErrorMsg(kind, name) == [kind |-> kind, name |-> name]

\* One iteration of the loop over uploaded_files: what it emits, whether it
\* appends a crop, and whether it left through the except clause.
LoopBody(f, p) ==
    LET none == [raised |-> TRUE, info |-> <<>>, warning |-> <<>>, cropped |-> <<>>]
    IN  IF ~f.ok THEN none                        \* Image.open / convert raises
        ELSE LET resize == NeedsResize(f.w, p.max_width)
                 e      == EffectiveSize(f, p.max_width)
             IN  IF resize /\ ResizeRaises(e.w, e.h) THEN none
                 ELSE LET box  == CropBox(e.w, p.crop_width, p.crop_height, p.x_offset)
                          note == IF resize THEN <<InfoMsg(f, e.w, e.h)>> ELSE <<>>
                      IN  IF TooSmall(box, e.w, e.h)
                          THEN [raised |-> FALSE, info |-> note,
                                warning |-> <<WarningMsg(f, e.w, e.h)>>, cropped |-> <<>>]
                          ELSE [raised |-> FALSE, info |-> note,
                                warning |-> <<>>, cropped |-> <<Crop(f.name, box)>>]

\* except ...: st.error(...); continue
AfterError_Break(i, n) == n + 1
AfterError(i, n) == i + 1

(***************************************************************************)
(* process_images: sheet assembly (lines 57-87).                           *)
(***************************************************************************)
\* actual_rows = math.ceil(len(sheet_images) / columns).  The float quotient
\* of two such small integers is an integer only when the exact one is, so
\* the ceiling is the exact one.
ActualRows_Floor(n, columns) == n \div columns
ActualRows(n, columns) == (n + columns - 1) \div columns

\* x = (index % columns) * crop_width ; y = (index // columns) * crop_height
TileX_Swapped(index, columns, cw) == (index \div columns) * cw
TileX(index, columns, cw) == (index % columns) * cw
TileY(index, columns, ch) == (index \div columns) * ch

\* sheet_number = (sheet_index // max_images_per_sheet) + 1
SheetNumber(sheet_index, C) == (sheet_index \div C) + 1

DigitChar == <<"0", "1", "2", "3", "4", "5", "6", "7", "8", "9">>

\* str(n) for n >= 0.
RECURSIVE DecStr(_)
DecStr(n) ==
    IF n < 10 THEN DigitChar[n + 1] ELSE DecStr(n \div 10) \o DigitChar[(n % 10) + 1]

\* f"{n:02d}": the decimal digits, zero-padded on the left to width 2.
Format02d_NoPad(n) == DecStr(n)
Format02d(n) == IF n < 10 THEN "0" \o DecStr(n) ELSE DecStr(n)

\* filename of sheet sheet_number.
Filename(sheet_number) ==
    IF sheet_number = 1
    THEN "Emo_sheet.png"
    ELSE "Emo_sheet_" \o Format02d(sheet_number) \o ".png"

\* Image.new('RGBA', (sheet_width, sheet_height), (0, 0, 0, 0)) and the
\* paste of every image of the group at (x, y).
BuildSheet(sheet_images, p) ==
    [width  |-> p.crop_width * p.columns,
     height |-> p.crop_height * ActualRows(Len(sheet_images), p.columns),
     pasted |-> [i \in 1..Len(sheet_images) |->
                   [img |-> sheet_images[i],
                    x |-> TileX(i - 1, p.columns, p.crop_width),
                    y |-> TileY(i - 1, p.columns, p.crop_height)]]]

\* cropped_images[sheet_index : sheet_index + max_images_per_sheet]
Slice(s, from, to) == SubSeq(s, from + 1, IF to < Len(s) THEN to ELSE Len(s))

(***************************************************************************)
(* create_zip_file (lines 89-103) and main's delivery (lines 233-290).     *)
(***************************************************************************)
\* sheet.save(buffer, format='PNG'): the PNG encoding of the RGBA raster.
Png(sheet) == [format |-> "PNG", mode |-> "RGBA", raster |-> sheet]

\* zip_file.writestr(filename, data): one more entry, also under a name the
\* archive already holds.
WriteStr_Replace(zf, name, data) ==
    IF \E i \in 1..Len(zf) : zf[i].name = name
    THEN [i \in 1..Len(zf) |-> IF zf[i].name = name THEN [name |-> name, data |-> data] ELSE zf[i]]
    ELSE Append(zf, [name |-> name, data |-> data])
WriteStr(zf, name, data) == Append(zf, [name |-> name, data |-> data])

\* zip_buffer.getvalue()
ZipBytes(zf) == [format |-> "ZIP", entries |-> zf]

\* if len(sheets) > 1
NeedsArchive_AtLeastOne(n) == n >= 1
NeedsArchive(n) == n > 1

\* st.download_button(label, data, file_name, mime)
DownloadButton(data, file_name, mime) == [data |-> data, file_name |-> file_name, mime |-> mime]

\* except Exception as e: st.error(...) at the top level of the batch action.
CaughtAtTopLevel_Silent(errs) == errs
CaughtAtTopLevel(errs) == Append(errs, ErrorMsg("fatal", 0))

(***************************************************************************)
(* The state.                                                              *)
(***************************************************************************)
VARIABLES
    entry,            \* the function called: "main", "process_images", "create_zip_file"
    pc,               \* where the call stands
    uploaded_files,   \* the uploaded images, in upload order
    params,           \* crop_width, crop_height, columns, rows, max_width, x_offset
    file_index,       \* the loop over uploaded_files (1-based)
    cropped_images,   \* process_images' list of crops
    sheet_index,      \* the loop over range(0, total_images, max_images_per_sheet)
    sheets,           \* the (sheet, filename) pairs built so far, then returned
    info, warning, error, success,   \* what st.info, st.warning, st.error, st.success showed
    image,            \* the st.image previews shown
    preview_index,    \* main's loop over sheets (1-based)
    download_button,  \* the st.download_button offers made
    zip_file,         \* the entries written to the archive so far
    zip_index,        \* create_zip_file's loop over sheets (1-based)
    zip_data          \* create_zip_file's return value, <<>> before it returns

vars == <<entry, pc, uploaded_files, params, file_index, cropped_images, sheet_index,
          sheets, info, warning, error, success, image, preview_index,
          download_button, zip_file, zip_index, zip_data>>

Fresh ==
    /\ file_index = 1
    /\ cropped_images = <<>>
    /\ sheet_index = 0
    /\ info = <<>> /\ warning = <<>> /\ error = <<>> /\ success = <<>>
    /\ image = <<>>
    /\ preview_index = 1
    /\ download_button = <<>>
    /\ zip_file = <<>>
    /\ zip_index = 1
    /\ zip_data = <<>>

\* A call of main (the button pressed) or of process_images on a short batch.
InitBatch ==
    /\ entry \in {"main", "process_images"}
    /\ pc = IF entry = "main" THEN "main" ELSE "crop"
    /\ params \in Params
    /\ \E n \in 0..MaxFiles : \E ks \in [1..n -> Files] :
           uploaded_files = [i \in 1..n |-> Named(i, ks[i])]
    /\ sheets = <<>>
    /\ Fresh

\* A call of main on a long batch of good images, one image per sheet.
InitLong ==
    /\ entry = "main"
    /\ pc = "main"
    /\ params = LongParams
    /\ \E n \in (LongLen - 1)..LongLen :
           uploaded_files = [i \in 1..n |-> Named(i, [ok |-> TRUE, w |-> 300, h |-> 300])]
    /\ sheets = <<>>
    /\ Fresh

\* A direct call of create_zip_file on any list of pairs.
InitZip ==
    /\ entry = "create_zip_file"
    /\ pc = "zip"
    /\ params = LongParams
    /\ uploaded_files = <<>>
    /\ \E n \in 0..MaxPairs : sheets \in [1..n -> Pairs]
    /\ Fresh

Init == InitBatch \/ InitLong \/ InitZip

(***************************************************************************)
(* process_images.                                                         *)
(***************************************************************************)
\* main, line 233: the batch action runs only with files uploaded.
StartBatch ==
    /\ pc = "main"
    /\ pc' = IF uploaded_files # <<>> THEN "crop" ELSE "idle"
    /\ UNCHANGED <<entry, uploaded_files, params, file_index, cropped_images, sheet_index,
                   sheets, info, warning, error, success, image, preview_index,
                   download_button, zip_file, zip_index, zip_data>>

\* Lines 20-55: one iteration of the loop over uploaded_files.
ProcessImage ==
    /\ pc = "crop"
    /\ file_index <= Len(uploaded_files)
    /\ LET f == uploaded_files[file_index]
           r == LoopBody(f, params)
       IN  /\ info' = info \o r.info
           /\ warning' = warning \o r.warning
           /\ cropped_images' = cropped_images \o r.cropped
           /\ error' = IF r.raised THEN Append(error, ErrorMsg("image", f.name)) ELSE error
           /\ file_index' = IF r.raised
                            THEN AfterError(file_index, Len(uploaded_files))
                            ELSE file_index + 1
    /\ UNCHANGED <<entry, pc, uploaded_files, params, sheet_index, sheets, success, image,
                   preview_index, download_button, zip_file, zip_index, zip_data>>

\* Lines 57-59: the loop is over; sheets = [], total_images = len(cropped_images).
StartAssembly ==
    /\ pc = "crop"
    /\ file_index > Len(uploaded_files)
    /\ pc' = "assemble"
    /\ sheets' = <<>>
    /\ sheet_index' = 0
    /\ UNCHANGED <<entry, uploaded_files, params, file_index, cropped_images, info, warning,
                   error, success, image, preview_index, download_button, zip_file,
                   zip_index, zip_data>>

\* Lines 61-85: one iteration of the loop over the groups of crops.
AssembleSheet ==
    /\ pc = "assemble"
    /\ sheet_index < Len(cropped_images)
    /\ LET C            == MaxImagesPerSheet(params.columns, params.rows)
           sheet_images == Slice(cropped_images, sheet_index, sheet_index + C)
       IN  /\ sheets' = Append(sheets, [sheet    |-> BuildSheet(sheet_images, params),
                                        filename |-> Filename(SheetNumber(sheet_index, C))])
           /\ sheet_index' = sheet_index + C
    /\ UNCHANGED <<entry, pc, uploaded_files, params, file_index, cropped_images, info,
                   warning, error, success, image, preview_index, download_button,
                   zip_file, zip_index, zip_data>>

\* Line 87: return sheets.
ReturnSheets ==
    /\ pc = "assemble"
    /\ sheet_index >= Len(cropped_images)
    /\ pc' = IF entry = "main" THEN "result" ELSE "done"
    /\ UNCHANGED <<entry, uploaded_files, params, file_index, cropped_images, sheet_index,
                   sheets, info, warning, error, success, image, preview_index,
                   download_button, zip_file, zip_index, zip_data>>

(***************************************************************************)
(* main: lines 246-290.                                                    *)
(***************************************************************************)
\* Lines 246-253: nothing to show, or the success banner.
CheckResult ==
    /\ pc = "result"
    /\ IF sheets = <<>>
       THEN /\ error' = Append(error, ErrorMsg("empty", 0))
            /\ pc' = "done"
            /\ UNCHANGED success
       ELSE /\ success' = Append(success, Len(sheets))
            /\ pc' = "preview"
            /\ UNCHANGED error
    /\ UNCHANGED <<entry, uploaded_files, params, file_index, cropped_images, sheet_index,
                   sheets, info, warning, image, preview_index, download_button, zip_file,
                   zip_index, zip_data>>

\* Lines 256-274: the preview of one sheet and its download button.
PreviewSheet ==
    /\ pc = "preview"
    /\ preview_index <= Len(sheets)
    /\ LET s == sheets[preview_index]
       IN  /\ image' = Append(image, [image |-> s.sheet, caption |-> s.filename])
           /\ download_button' =
                 Append(download_button, DownloadButton(Png(s.sheet), s.filename, "image/png"))
    /\ preview_index' = preview_index + 1
    /\ UNCHANGED <<entry, pc, uploaded_files, params, file_index, cropped_images,
                   sheet_index, sheets, info, warning, error, success, zip_file,
                   zip_index, zip_data>>

\* Lines 256-274 raising: in st.image (nothing of this sheet was shown) or in
\* sheet.save (its preview was).  The except clause of line 289 reports it.
PreviewFault ==
    /\ pc = "preview"
    /\ preview_index <= Len(sheets)
    /\ \E shown \in BOOLEAN :
           image' = IF shown
                    THEN Append(image, [image |-> sheets[preview_index].sheet,
                                        caption |-> sheets[preview_index].filename])
                    ELSE image
    /\ error' = CaughtAtTopLevel(error)
    /\ pc' = "failed"
    /\ UNCHANGED <<entry, uploaded_files, params, file_index, cropped_images, sheet_index,
                   sheets, info, warning, success, preview_index, download_button,
                   zip_file, zip_index, zip_data>>

\* Line 277: the archive is built for more than one sheet.
EndPreview ==
    /\ pc = "preview"
    /\ preview_index > Len(sheets)
    /\ pc' = IF NeedsArchive(Len(sheets)) THEN "zip" ELSE "done"
    /\ UNCHANGED <<entry, uploaded_files, params, file_index, cropped_images, sheet_index,
                   sheets, info, warning, error, success, image, preview_index,
                   download_button, zip_file, zip_index, zip_data>>

(***************************************************************************)
(* create_zip_file.                                                        *)
(***************************************************************************)
\* Lines 96-100: one pair encoded and written.
ZipWrite ==
    /\ pc = "zip"
    /\ zip_index <= Len(sheets)
    /\ zip_file' = WriteStr(zip_file, sheets[zip_index].filename, Png(sheets[zip_index].sheet))
    /\ zip_index' = zip_index + 1
    /\ UNCHANGED <<entry, pc, uploaded_files, params, file_index, cropped_images,
                   sheet_index, sheets, info, warning, error, success, image,
                   preview_index, download_button, zip_data>>

\* Lines 96-100 raising (sheet.save or writestr): create_zip_file has no
\* handler, so main's except clause reports it, and a direct caller gets it.
ZipFault ==
    /\ pc = "zip"
    /\ zip_index <= Len(sheets)
    /\ IF entry = "main"
       THEN /\ error' = CaughtAtTopLevel(error)
            /\ pc' = "failed"
       ELSE /\ pc' = "raised"
            /\ UNCHANGED error
    /\ UNCHANGED <<entry, uploaded_files, params, file_index, cropped_images, sheet_index,
                   sheets, info, warning, success, image, preview_index, download_button,
                   zip_file, zip_index, zip_data>>

\* Lines 102-103 and, in main, lines 281-287: the archive is returned and
\* offered as emo_sheets.zip.
ZipReturn ==
    /\ pc = "zip"
    /\ zip_index > Len(sheets)
    /\ zip_data' = <<ZipBytes(zip_file)>>
    /\ download_button' =
          IF entry = "main"
          THEN Append(download_button,
                      DownloadButton(ZipBytes(zip_file), "emo_sheets.zip", "application/zip"))
          ELSE download_button
    /\ pc' = "done"
    /\ UNCHANGED <<entry, uploaded_files, params, file_index, cropped_images, sheet_index,
                   sheets, info, warning, error, success, image, preview_index, zip_file,
                   zip_index>>

Next ==
    \/ StartBatch
    \/ ProcessImage
    \/ StartAssembly
    \/ AssembleSheet
    \/ ReturnSheets
    \/ CheckResult
    \/ PreviewSheet
    \/ PreviewFault
    \/ EndPreview
    \/ ZipWrite
    \/ ZipFault
    \/ ZipReturn

Spec == Init /\ [][Next]_vars

(***************************************************************************)
(* Vocabulary of the properties.                                           *)
(***************************************************************************)
\* The names a sequence of messages (or files) carries.
Names(seq) == {seq[i].name : i \in DOMAIN seq}

\* How many entries of seq carry the name.
Count(seq, name) == Cardinality({i \in DOMAIN seq : seq[i].name = name})

\* The per-image errors among what st.error showed.
ImageErrors == SelectSeq(error, LAMBDA e : e.kind = "image")

\* The capacity of a sheet, and the smallest q with q * c >= n.
Capacity == params.columns * params.rows
CeilDiv(n, c) == CHOOSE q \in 0..n : q * c >= n /\ (q = 0 \/ (q - 1) * c < n)

\* A call of process_images is under way or over.
InProcessImages == entry \in {"main", "process_images"} /\ pc # "main" /\ pc # "idle"

\* process_images has returned its sheets.
Returned == InProcessImages /\ pc \in {"result", "preview", "zip", "done", "failed"}

\* The files the loop has gone through.
Processed == 1..(file_index - 1)

\* The source names of the tiles pasted into the sheets.
PastedNames ==
    UNION { {sheets[j].sheet.pasted[i].img.src : i \in DOMAIN sheets[j].sheet.pasted} :
            j \in DOMAIN sheets }

\* The archive download has been offered.
ArchiveOffered == \E i \in DOMAIN download_button : download_button[i].file_name = "emo_sheets.zip"

(***************************************************************************)
(* C1: process_images returns ceil(N / C) sheets for N > 0 successfully    *)
(* cropped images (neither skipped nor failed) and C = columns * rows, and *)
(* no sheet for N = 0.                                                     *)
(***************************************************************************)
C1_SheetCount ==
    Returned =>
        LET N == Len(uploaded_files) - Len(warning) - Len(ImageErrors)
        IN  /\ N = Len(cropped_images)
            /\ Len(sheets) = IF N = 0 THEN 0 ELSE CeilDiv(N, Capacity)

\* Three crops on a grid of two: the count is rounded up.
C1_Witness ==
    Returned /\ Len(cropped_images) = 3 /\ Capacity = 2 /\ Len(sheets) = 2

(***************************************************************************)
(* C2: the k-th successfully cropped image, in input order and counting    *)
(* only the successful ones, lies in sheet (k div C) + 1 at index          *)
(* i = k mod C, pasted at ((i mod columns) * crop_width,                   *)
(* (i div columns) * crop_height); no other slot exists.                   *)
(***************************************************************************)
C2_Placement ==
    Returned =>
        LET dropped == Names(warning) \cup Names(ImageErrors)
            succ    == SelectSeq(uploaded_files, LAMBDA f : f.name \notin dropped)
        IN  /\ \A k \in 0..(Len(succ) - 1) :
                  LET j == (k \div Capacity) + 1
                      i == k % Capacity
                  IN  /\ j \in DOMAIN sheets
                      /\ i + 1 \in DOMAIN sheets[j].sheet.pasted
                      /\ LET t == sheets[j].sheet.pasted[i + 1]
                         IN  /\ t.img.src = succ[k + 1].name
                             /\ t.x = (i % params.columns) * params.crop_width
                             /\ t.y = (i \div params.columns) * params.crop_height
            /\ \A j \in DOMAIN sheets : \A i \in DOMAIN sheets[j].sheet.pasted :
                  (j - 1) * Capacity + i <= Len(succ)

\* The third upload is the first tile of the second sheet's row: an earlier
\* image was dropped, and a tile sits in the second column.
C2_Witness ==
    /\ Returned
    /\ params.columns = 2
    /\ Len(sheets) = 1
    /\ Len(sheets[1].sheet.pasted) = 2
    /\ sheets[1].sheet.pasted[2].img.src = 3

(***************************************************************************)
(* C3 as stated: the first sheet is named "Emo_sheet.png" and the k-th     *)
(* sheet, k >= 2, "Emo_sheet_" followed by exactly two digits spelling k,  *)
(* however many sheets there are.                                          *)
(***************************************************************************)
C3_TwoDigitSuffix ==
    InProcessImages =>
        \A k \in DOMAIN sheets :
            IF k = 1 THEN sheets[k].filename = "Emo_sheet.png"
            ELSE \E d1, d2 \in 0..9 :
                    /\ 10 * d1 + d2 = k
                    /\ sheets[k].filename =
                          "Emo_sheet_" \o DigitChar[d1 + 1] \o DigitChar[d2 + 1] \o ".png"

(***************************************************************************)
(* C3 amended: the first sheet is named "Emo_sheet.png"; the k-th sheet,   *)
(* 2 <= k <= 99, "Emo_sheet_" followed by two digits spelling k (zero-     *)
(* padded); from the 100th sheet on the suffix is k's plain decimal, which *)
(* has three digits up to sheet 999.                                       *)
(***************************************************************************)
C3_MinTwoDigitSuffix ==
    InProcessImages =>
        \A k \in DOMAIN sheets :
            IF k = 1 THEN sheets[k].filename = "Emo_sheet.png"
            ELSE IF k <= 99
            THEN \E d1, d2 \in 0..9 :
                    /\ 10 * d1 + d2 = k
                    /\ sheets[k].filename =
                          "Emo_sheet_" \o DigitChar[d1 + 1] \o DigitChar[d2 + 1] \o ".png"
            ELSE \E d1 \in 1..9 : \E d2, d3 \in 0..9 :
                    /\ 100 * d1 + 10 * d2 + d3 = k
                    /\ sheets[k].filename =
                          "Emo_sheet_" \o DigitChar[d1 + 1] \o DigitChar[d2 + 1]
                                       \o DigitChar[d3 + 1] \o ".png"

\* A batch that has produced its hundredth sheet.
C3_Witness == Returned /\ Len(sheets) >= 100

C5_ResizeRule ==
    InProcessImages =>
        \A n \in Processed :
            LET f  == uploaded_files[n]
                mw == params.max_width
                ew == IF f.w > mw THEN mw ELSE f.w
                eh == IF f.w > mw THEN (f.h * mw) \div f.w ELSE f.h
            IN  f.name \notin Names(ImageErrors) =>
                  /\ Count(info, f.name) = IF f.w > mw THEN 1 ELSE 0
                  /\ \A i \in DOMAIN info :
                        info[i].name = f.name => info[i].nw = ew /\ info[i].nh = eh
                  /\ \A i \in DOMAIN warning :
                        warning[i].name = f.name => warning[i].w = ew /\ warning[i].h = eh
                  /\ EffectiveSize(f, mw) = [w |-> ew, h |-> eh]

(***************************************************************************)
(* C6: an image that fails (it does not decode, or its resize raises) is   *)
(* reported by one per-image error and nothing else; the loop goes on, and *)
(* the sheets returned are those of the same batch without the failing     *)
(* images: same count, filenames and tile positions.                       *)
(***************************************************************************)
\* The image raises inside the loop body.
Fails(f) ==
    \/ ~f.ok
    \/ f.w > params.max_width /\ NewHeight(f.w, f.h, params.max_width) < 1

\* The crops of a batch none of whose images fails, in order.
CropsOf(fs) ==
    LET box(f) == LET e == EffectiveSize(f, params.max_width)
                  IN  CropBox(e.w, params.crop_width, params.crop_height, params.x_offset)
        fits(f) == LET e == EffectiveSize(f, params.max_width)
                   IN  ~TooSmall(box(f), e.w, e.h)
        kept == SelectSeq(fs, fits)
    IN  [k \in 1..Len(kept) |-> Crop(kept[k].name, box(kept[k]))]

\* The sheets of a list of crops: consecutive groups of Capacity crops.
SheetsOf(tiles) ==
    LET n == Len(tiles)
    IN  [j \in 1..CeilDiv(n, Capacity) |->
            LET last == IF j * Capacity < n THEN j * Capacity ELSE n
            IN  [sheet    |-> BuildSheet(SubSeq(tiles, (j - 1) * Capacity + 1, last), params),
                 filename |-> Filename(j)]]

C6_FaultIsolation ==
    InProcessImages =>
        /\ \A n \in DOMAIN uploaded_files :
              Count(ImageErrors, uploaded_files[n].name) =
                 IF n \in Processed /\ Fails(uploaded_files[n]) THEN 1 ELSE 0
        /\ \A i \in DOMAIN error : error[i].kind = "image" \/ pc \in {"done", "failed"}
        /\ Returned =>
              /\ file_index = Len(uploaded_files) + 1
              /\ sheets = SheetsOf(CropsOf(SelectSeq(uploaded_files, LAMBDA f : ~Fails(f))))

\* A failing image followed by an image whose tile is in a returned sheet.
C6_Witness ==
    /\ Returned
    /\ ImageErrors # <<>>
    /\ \E n \in PastedNames : n > ImageErrors[1].name

(***************************************************************************)
(* C7 as stated: an invocation that ends in a fault outside the per-image  *)
(* loop has offered no sheet preview and no sheet download.                *)
(***************************************************************************)
C7_NoPartialOutput ==
    (entry = "main" /\ pc = "failed") => image = <<>> /\ download_button = <<>>

(***************************************************************************)
(* C7 amended: a fault outside the per-image loop is caught at the top     *)
(* level and reported by exactly one error, the invocation ends there, and *)
(* no archive is returned or offered; the previews and downloads offered   *)
(* before the fault stay: those of the sheets before the one whose preview *)
(* raised, each a whole sheet, and of every sheet when create_zip_file     *)
(* raised.                                                                 *)
(***************************************************************************)
C7_FaultReported ==
    LET fatal == {i \in DOMAIN error : error[i].kind = "fatal"}
    IN  /\ (entry = "main" /\ pc = "failed") =>
              /\ fatal = {Len(error)}
              /\ ~ENABLED Next
              /\ zip_data = <<>>
              /\ ~ArchiveOffered
              /\ Len(download_button) = preview_index - 1
              /\ \A i \in DOMAIN download_button :
                    download_button[i] =
                       DownloadButton(Png(sheets[i].sheet), sheets[i].filename, "image/png")
              /\ Len(image) \in {preview_index - 1, preview_index}
              /\ zip_file # <<>> => Len(download_button) = Len(sheets)
        /\ pc # "failed" => fatal = {}

\* create_zip_file raised after writing an entry: every sheet had been offered.
C7_Witness ==
    entry = "main" /\ pc = "failed" /\ zip_file # <<>> /\ Len(download_button) >= 2

(***************************************************************************)
(* C8: the archive emo_sheets.zip is built and offered only for more than  *)
(* one sheet, and is offered whenever a batch action with more than one    *)
(* sheet runs to its end; with exactly one sheet that sheet is offered and *)
(* no archive is built; with no sheet the "no images" error is reported    *)
(* and neither a sheet nor an archive is offered.                          *)
(***************************************************************************)
C8_Delivery ==
    entry = "main" =>
        /\ (ArchiveOffered \/ zip_file # <<>> \/ zip_data # <<>>) => Len(sheets) > 1
        /\ (pc = "done" /\ Len(sheets) > 1) =>
              /\ zip_data # <<>>
              /\ Cardinality({i \in DOMAIN download_button :
                                 download_button[i].file_name = "emo_sheets.zip"}) = 1
              /\ download_button[Len(download_button)] =
                    DownloadButton(zip_data[1], "emo_sheets.zip", "application/zip")
        /\ (pc = "done" /\ Len(sheets) = 1) =>
              /\ download_button =
                    <<DownloadButton(Png(sheets[1].sheet), sheets[1].filename, "image/png")>>
              /\ Len(image) = 1
        /\ (pc = "done" /\ sheets = <<>>) =>
              /\ Cardinality({i \in DOMAIN error : error[i].kind = "empty"}) = 1
              /\ error[Len(error)].kind = "empty"
              /\ image = <<>> /\ download_button = <<>> /\ success = <<>>
        /\ (\E i \in DOMAIN error : error[i].kind = "empty") => pc = "done" /\ sheets = <<>>

\* Two sheets, delivered with the archive.
C8_Witness ==
    entry = "main" /\ pc = "done" /\ Len(sheets) = 2 /\ ArchiveOffered

(***************************************************************************)
(* C9: the archive create_zip_file returns holds one entry per pair, in    *)
(* input order, each named by its pair's filename and holding the PNG of   *)
(* its pair's sheet, also when filenames repeat; for the sheets of         *)
(* process_images no two entries share a name.                             *)
(***************************************************************************)
C9_Archive ==
    /\ pc = "zip" => Len(zip_file) = zip_index - 1
    /\ zip_data # <<>> =>
          LET es == zip_data[1].entries
          IN  /\ zip_data[1].format = "ZIP"
              /\ Len(es) = Len(sheets)
              /\ \A i \in DOMAIN sheets :
                    /\ es[i].name = sheets[i].filename
                    /\ es[i].data.format = "PNG"
                    /\ es[i].data.raster = sheets[i].sheet
              /\ entry = "main" =>
                    \A i, j \in DOMAIN es : es[i].name = es[j].name => i = j

\* A direct call with two pairs of one filename.
C9_Witness ==
    /\ entry = "create_zip_file"
    /\ zip_data # <<>>
    /\ Len(sheets) >= 2
    /\ sheets[1].filename = sheets[2].filename

(***************************************************************************)
(* C10: every sheet of process_images holds between 1 and columns * rows   *)
(* tiles, and exactly columns * rows unless it is the last; a sheet of g   *)
(* tiles measures (crop_width * columns) x (crop_height * ceil(g/columns)),*)
(* so at most crop_height * rows high; every tile lies inside its sheet    *)
(* and no two tiles of a sheet overlap.                                    *)
(***************************************************************************)
C10_SheetGeometry ==
    InProcessImages =>
        \A j \in DOMAIN sheets :
            LET s == sheets[j].sheet
                g == Len(s.pasted)
            IN  /\ 1 <= g /\ g <= Capacity
                /\ j < Len(sheets) => g = Capacity
                /\ s.width = params.crop_width * params.columns
                /\ s.height = params.crop_height * CeilDiv(g, params.columns)
                /\ s.height <= params.crop_height * params.rows
                /\ \A a \in DOMAIN s.pasted :
                      LET t == s.pasted[a]
                      IN  /\ 0 <= t.x /\ t.x + t.img.width <= s.width
                          /\ 0 <= t.y /\ t.y + t.img.height <= s.height
                /\ \A a, b \in DOMAIN s.pasted :
                      a < b =>
                        LET t == s.pasted[a]
                            u == s.pasted[b]
                        IN  \/ t.x + t.img.width <= u.x
                            \/ u.x + u.img.width <= t.x
                            \/ t.y + t.img.height <= u.y
                            \/ u.y + u.img.height <= t.y

\* One sheet of three tiles on a 2 x 2 grid: a last row of one tile.
C10_Witness ==
    /\ Returned
    /\ params.columns = 2 /\ params.rows = 2
    /\ Len(sheets) = 1
    /\ Len(sheets[1].sheet.pasted) = 3

====
